---- MODULE Spec2Model ----
(***************************************************************************)
(* ErrorMetricsCollector (fastapi_error_codes/metrics/collector.py): a     *)
(* lock-protected, time-bucketed error aggregator with a recent-events     *)
(* buffer.  Caller threads run record(), get_snapshot(),                   *)
(* get_error_counts_by_code(), get_recent_events(), get_buckets(),         *)
(* clear() and total_events; every call is modelled step by step           *)
(* (before the lock, lock acquisition, the statements of the critical      *)
(* section, release).  TimeBucket objects and Python lists are heap        *)
(* objects addressed by reference, so aliasing is visible.                 *)
(* Time is the wall clock (datetime.utcnow) in milliseconds.               *)
(***************************************************************************)
EXTENDS Integers, Sequences, FiniteSets, TLC

VARIABLES
  config,          \* self.config: collection_interval_ms, max_events
  clock,           \* datetime.utcnow(), in ms
  lock,            \* self._lock: "none" or the thread that holds it
  total_events,    \* self._total_events
  buckets,         \* self._buckets: OrderedDict as a sequence of [key, ref]
  current_bucket,  \* self._current_bucket: a TimeBucket reference, 0 for None
  recent_events,   \* self._recent_events: a list reference
  bucketObj,       \* heap: TimeBucket reference -> TimeBucket
  listObj,         \* heap: list reference -> sequence of ErrorEvent
  nextEvent,       \* source of unique event ids (uuid4)
  pc,              \* per thread: position in the call it is running
  ev,              \* per thread: the ErrorEvent built by record()
  arg,             \* per thread: the limit passed to get_recent_events
  tmp,             \* per thread: value loaded by "self._total_events += 1"
  ret,             \* per thread: the value its last call returned
  budget,          \* per thread: calls it may still start
  ticks,           \* clock advances still allowed
  log,             \* history: ids of the events appended since the last clear(), in order
  recorded,        \* history: per error code, events appended since the last clear()
  completed,       \* history: record() calls returned since the last clear()
  cleared,         \* history: clear() has run
  clearClock,      \* history: the clock at construction or at the last clear()
  dropped,         \* history: a bucket has left the collection since the last clear()
  collector,       \* "none" before construction, then "constructed" or "rejected"
  lastSnap,        \* history: what the last get_snapshot() saw, while nothing was written since
  lastOpened,      \* history: the time at which record() last opened a bucket since the last clear()
  policyRemoved    \* history: _enforce_max_events has removed a bucket

vars == << config, clock, lock, total_events, buckets, current_bucket,
           recent_events, bucketObj, listObj, nextEvent, pc, ev, arg, tmp,
           ret, budget, ticks, log, recorded, completed, cleared,
           clearClock, dropped, collector, lastSnap, lastOpened,
           policyRemoved >>

----------------------------------------------------------------------------
\* Program constants

\* collector.py:277  "if len(self._recent_events) > 1000"
RecentLimit == 1000

\* collector.py:256  second=(current_time.second // 10) * 10, in ms
AlignMs == 10000

\* config.py:64  collection_interval_ms must be at least 1000
MinIntervalMs == 1000

\* config.py:67  max_events must be at least 100
MinMaxEvents == 100

\* config.py:70  max_events must not exceed 1000000
MaxMaxEvents == 1000000

\* config.py:45  default collection_interval_ms
DefaultIntervalMs == 60000

----------------------------------------------------------------------------
\* Bounds of the model

\* concurrent workload: calls each of the two threads may start (no clock advance)
ConcCalls == 2

\* sequential workload: calls of the single caller, and clock advances
SeqCalls == 4

SeqTicks == 2

\* racing workload: calls of each thread, and clock advances
RaceCalls == 1

RaceTicks == 1

\* bulk workload: record() calls of the recording thread, and
\* get_recent_events() calls of the reading thread
BulkCalls == 1002

BulkReads == 1

\* construction workload: record() calls made on a collector once constructed
ConfigCalls == 2

\* eviction workload: buckets of a collection handed to _enforce_max_events
MaxBuckets == 3

\* pressure workload: record() calls of the single caller, more than
\* max_events, and clock advances
PressureCalls == 102

PressureTicks == 1

Threads == {"t1", "t2"}

BulkThread == "t1"

BulkReader == "t2"

\* error codes passed to record()
Codes == {404, 500}

BulkCodes == {404}

\* limits passed to get_recent_events()
Limits == {-5, 0, 2}

BulkLimits == {10, 1001}

\* clock advances, in ms
Deltas == {1, DefaultIntervalMs}

\* (collection_interval_ms, wall clock at construction) explored: the default
\* interval from an aligned instant, and an interval shorter than the 10 s
\* alignment from an instant later in the 10 s window than the interval
Environments ==
  { [interval |-> DefaultIntervalMs, clock |-> 0],
    [interval |-> 5000, clock |-> 7000] }

\* arguments passed to MetricsConfig(): each limit of the validation, the
\* value next to it on the other side, and the default interval
CandidateIntervals == {MinIntervalMs - 1, MinIntervalMs, DefaultIntervalMs}

CandidateMaxEvents ==
  {MinMaxEvents - 1, MinMaxEvents, MaxMaxEvents, MaxMaxEvents + 1}

ConfigThread == "t1"

\* total_count of the buckets handed to _enforce_max_events, chosen around
\* max_events = 100 and its 90 %: sums of 90, 91, 100, 101 and more occur
EvictCounts == {0, 10, 45, 46, 55, 101}

EvictThread == "t1"

PressureThread == "t1"

\* clock advances of the pressure workload, in ms: up to the end of the
\* default window, and past it
PressureDeltas == {DefaultIntervalMs, DefaultIntervalMs + 1}

\* calls per thread and clock advances of the workloads explored
Workloads ==
  { [calls |-> [t \in Threads |-> ConcCalls], ticks |-> 0],
    [calls |-> [t \in Threads |-> IF t = "t1" THEN SeqCalls ELSE 0], ticks |-> SeqTicks],
    [calls |-> [t \in Threads |-> RaceCalls], ticks |-> RaceTicks] }

----------------------------------------------------------------------------
\* Values

NoEvent == [id |-> 0, code |-> 0, message |-> "", ts |-> 0]

NoReturn == [kind |-> "none"]

\* no bucket opened yet
NoTime == -1

\* no get_snapshot() since the collector was last written
NoSnap == [valid |-> FALSE, again |-> FALSE]

\* the total_errors and error_counts a get_snapshot() call read, kept as the
\* last ones seen; again: another call had read the same state before it
Seen(total, counts, before) ==
  [valid |-> TRUE, again |-> before.valid, total_errors |-> total,
   error_counts |-> counts]

EmptyDict == [c \in {} |-> 0]

Min(a, b) == IF a < b THEN a ELSE b

RECURSIVE SumOver(_, _)
SumOver(f, S) ==
  IF S = {} THEN 0
  ELSE LET x == CHOOSE y \in S : TRUE IN f[x] + SumOver(f, S \ {x})

\* sum(d.values()) of a dict
DictSum(d) == SumOver(d, DOMAIN d)

\* the smallest reference not in use
FreshRef(heap) == CHOOSE i \in 1..(Cardinality(DOMAIN heap) + 1) :
                    i \notin DOMAIN heap

Restrict(heap, live) == [i \in (DOMAIN heap) \cap live |-> heap[i]]

----------------------------------------------------------------------------
\* TimeBucket (collector.py:68-108)

NewTimeBucket(start, end) ==
  [start_time |-> start, end_time |-> end,
   error_counts |-> EmptyDict, total_count |-> 0]

\* self.error_counts[code] = self.error_counts.get(code, 0) + 1
DictIncrement(d, code) ==
  [c \in (DOMAIN d) \cup {code} |->
     IF c = code THEN (IF code \in DOMAIN d THEN d[code] ELSE 0) + 1
     ELSE d[c]]

\* add_event without its second statement
AddEventCountsOnly(bucket, event) ==
  [bucket EXCEPT !.error_counts = DictIncrement(@, event.code)]

add_event(bucket, event) ==
  [bucket EXCEPT !.error_counts = DictIncrement(@, event.code),
                 !.total_count = @ + 1]

\* a bucket that never expires
NeverExpired(bucket, current_time) == FALSE

is_expired(bucket, current_time) == current_time > bucket.end_time

----------------------------------------------------------------------------
\* ErrorMetricsCollector helpers

\* timedelta(milliseconds=config.collection_interval_ms)
bucket_duration == config.collection_interval_ms

\* current_time.replace(microsecond=0, second=(current_time.second // 10) * 10)
BucketStart(current_time) == (current_time \div AlignMs) * AlignMs

\* the condition of a half-open window [start_time, end_time)
NeedNewBucketHalfOpen(cur, heap, current_time) ==
  \/ cur = 0
  \/ current_time >= heap[cur].end_time

\* self._current_bucket is None or current_time > self._current_bucket.end_time
NeedNewBucket(cur, heap, current_time) ==
  \/ cur = 0
  \/ current_time > heap[cur].end_time

Keys(bs) == {bs[i].key : i \in 1..Len(bs)}

Refs(bs) == {bs[i].ref : i \in 1..Len(bs)}

\* self._buckets[key] = ref on an OrderedDict: an existing key keeps its place
OrderedDictSet(bs, key, ref) ==
  IF key \in Keys(bs)
  THEN [i \in 1..Len(bs) |->
          IF bs[i].key = key THEN [key |-> key, ref |-> ref] ELSE bs[i]]
  ELSE Append(bs, [key |-> key, ref |-> ref])

\* a sweep that deletes no key
KeepEveryBucket(bs, heap, current_time) == bs

_cleanup_expired_buckets(bs, heap, current_time) ==
  LET Keep(e) == ~is_expired(heap[e.ref], current_time)
  IN SelectSeq(bs, Keep)

\* sum(bucket.total_count for bucket in self._buckets.values())
EstimatedTotal(bs, heap) ==
  SumOver([i \in 1..Len(bs) |-> heap[bs[i].ref].total_count], 1..Len(bs))

\* while estimated_total > max_events * 0.9 and len(self._buckets) > 1: pop oldest
RECURSIVE EvictLoop(_, _, _)
EvictLoop(bs, heap, estimated_total) ==
  IF 10 * estimated_total > 9 * config.max_events /\ Len(bs) > 1
  THEN EvictLoop(Tail(bs), heap, estimated_total - heap[Head(bs).ref].total_count)
  ELSE bs

\* the eviction loop entered whatever the estimate, without the test against
\* max_events
_enforce_without_limit(bs, heap) ==
  EvictLoop(bs, heap, EstimatedTotal(bs, heap))

_enforce_max_events(bs, heap) ==
  LET estimated_total == EstimatedTotal(bs, heap)
  IN IF estimated_total > config.max_events
     THEN EvictLoop(bs, heap, estimated_total)
     ELSE bs

\* an insertion at the front: self._recent_events.insert(0, event)
InsertFirst(events, event) == << event >> \o events

\* self._recent_events.append(event)
AppendRecent(events, event) == Append(events, event)

\* a trim driven by max_events: the eviction limit applied to the recent events
TrimRecentByMaxEvents(events) ==
  IF Len(events) > config.max_events
  THEN SubSeq(events, Len(events) - config.max_events + 1, Len(events))
  ELSE events

\* if len(self._recent_events) > 1000: self._recent_events = self._recent_events[-1000:]
TrimRecent(events) ==
  IF Len(events) > RecentLimit
  THEN SubSeq(events, Len(events) - RecentLimit + 1, Len(events))
  ELSE events

\* error_counts read from self._current_bucket alone
AggregateFromCurrent(bs, heap) ==
  IF current_bucket \in DOMAIN heap THEN heap[current_bucket].error_counts
  ELSE EmptyDict

\* error_counts aggregated over all buckets of the collection
AggregateCounts(bs, heap) ==
  LET codes == UNION {DOMAIN heap[bs[i].ref].error_counts : i \in 1..Len(bs)}
      CountIn(i, c) == LET d == heap[bs[i].ref].error_counts
                       IN IF c \in DOMAIN d THEN d[c] ELSE 0
  IN [c \in codes |-> SumOver([i \in 1..Len(bs) |-> CountIn(i, c)], 1..Len(bs))]

\* total_errors taken from the buckets of the collection
SnapshotTotalFromBuckets(total, bs, heap) == EstimatedTotal(bs, heap)

\* total_errors=self._total_events
SnapshotTotal(total, bs, heap) == total

\* recent = self._recent_events: the collector's own list, not a copy
SnapshotListAlias(heap, ref) == ref

\* recent = list(self._recent_events): a new list object
SnapshotListRef(heap, ref) == FreshRef(heap)

\* self._recent_events[-limit:]
LastSlice(events, limit) ==
  IF limit >= Len(events) THEN events
  ELSE SubSeq(events, Len(events) - limit + 1, Len(events))

\* list(events): the slice in insertion order
NotReversed(events) == events

\* list(reversed(events))
Reversed(events) == [i \in 1..Len(events) |-> events[Len(events) - i + 1]]

\* self._recent_events[-limit:] reversed for any limit: -0 is the whole
\* list and a negative limit drops the first -limit events
UnguardedRecentEvents(events, limit) ==
  IF limit > 0 THEN Reversed(LastSlice(events, limit))
  ELSE Reversed(SubSeq(events, 1 - limit, Len(events)))

\* the body of get_recent_events
RecentEvents(events, limit) ==
  IF limit <= 0 THEN << >> ELSE Reversed(LastSlice(events, limit))

\* the end of a with block that leaves the lock with the thread
KeptLock(t) == t

\* the end of "with self._lock:": the lock is released, also on an exception
ReleasedLock(t) == "none"

\* clear() leaving self._current_bucket bound to the bucket it had
StaleCurrentBucket(cur) == cur

\* self._current_bucket = None
ClearedCurrentBucket(cur) == 0

\* a read that sweeps the expired buckets out of the collection
SweptBuckets(bs, heap, current_time) ==
  _cleanup_expired_buckets(bs, heap, current_time)

\* "for bucket in self._buckets.values()": the collection is read, not written
IteratedBuckets(bs, heap, current_time) == bs

\* a lock that excludes nobody
LockNeverHeld == TRUE

\* threading.Lock: acquire() succeeds only when nobody holds the lock
LockFree == lock = "none"

----------------------------------------------------------------------------
\* Reachability of heap objects

HeldBuckets(r) ==
  UNION {IF r[t].kind = "buckets" THEN {r[t].refs[i] : i \in 1..Len(r[t].refs)}
         ELSE {} : t \in Threads}

LiveBuckets(bs, cur, r) == Refs(bs) \cup ({cur} \ {0}) \cup HeldBuckets(r)

LiveLists(rec, r) ==
  {rec} \cup {r[t].recent_events : t \in {u \in Threads : r[u].kind = "snapshot"}}

----------------------------------------------------------------------------
\* Thread positions

Idle == [op |-> "none", at |-> "idle"]

At(op, at) == [op |-> op, at |-> at]

ReadOps == {"snapshot", "counts", "recent", "buckets", "total"}

LockedOps == ReadOps \cup {"clear"}

\* results the caller keeps hold of after the call: the objects that own or
\* share containers; plain values are used and dropped when the call returns
KeptKinds == {"snapshot", "buckets"}

----------------------------------------------------------------------------
\* Initial states

\* a validation that lets every value through
AcceptsAnyConfig(c) == TRUE

\* MetricsConfig.__post_init__ (config.py:62-71): no ValueError is raised
\* (sentry_enabled keeps its default, False)
ValidConfig(c) ==
  /\ ~(c.collection_interval_ms < MinIntervalMs)
  /\ ~(c.max_events < MinMaxEvents)
  /\ ~(c.max_events > MaxMaxEvents)

\* the callers at rest, nothing recorded yet
InitCallers ==
  /\ nextEvent = 1
  /\ pc = [t \in Threads |-> Idle]
  /\ ev = [t \in Threads |-> NoEvent]
  /\ arg = [t \in Threads |-> 0]
  /\ tmp = [t \in Threads |-> 0]
  /\ ret = [t \in Threads |-> NoReturn]
  /\ log = << >>
  /\ recorded = [c \in Codes |-> 0]
  /\ completed = 0
  /\ cleared = FALSE
  /\ clearClock = clock
  /\ dropped = FALSE
  /\ lastSnap = NoSnap
  /\ lastOpened = NoTime
  /\ policyRemoved = FALSE

\* the fields ErrorMetricsCollector.__init__ sets, and the callers at rest
InitFields ==
  /\ lock = "none"
  /\ total_events = 0
  /\ buckets = << >>
  /\ current_bucket = 0
  /\ recent_events = 1
  /\ bucketObj = [i \in {} |-> 0]
  /\ listObj = [i \in {1} |-> << >>]
  /\ InitCallers

\* ErrorMetricsCollector.__init__ (collector.py:192-198)
InitCollector ==
  /\ \E e \in Environments :
       /\ config = [collection_interval_ms |-> e.interval, max_events |-> MinMaxEvents]
       /\ clock = e.clock
  /\ ValidConfig(config)
  /\ collector = "constructed"
  /\ InitFields

Init ==
  /\ InitCollector
  /\ \E w \in Workloads :
       /\ budget = w.calls
       /\ ticks = w.ticks

InitBulk ==
  /\ InitCollector
  /\ budget = [t \in Threads |-> IF t = BulkThread THEN BulkCalls ELSE BulkReads]
  /\ ticks = 0

\* a fresh collector with max_events = 100 and a caller about to record more
\* events than that while the clock advances
InitPressure ==
  /\ InitCollector
  /\ budget = [t \in Threads |-> IF t = PressureThread THEN PressureCalls ELSE 0]
  /\ ticks = PressureTicks

\* a collector whose collection holds 1..MaxBuckets buckets, oldest first,
\* with the given counts: the collections _enforce_max_events is written for
InitEvict ==
  /\ config = [collection_interval_ms |-> DefaultIntervalMs,
               max_events |-> MinMaxEvents]
  /\ clock = 0
  /\ collector = "constructed"
  /\ \E n \in 1..MaxBuckets :
       \E counts \in [1..n -> EvictCounts] :
         /\ buckets = [i \in 1..n |-> [key |-> (i - 1) * DefaultIntervalMs, ref |-> i]]
         /\ bucketObj =
              [i \in 1..n |->
                 [start_time |-> (i - 1) * DefaultIntervalMs,
                  end_time |-> i * DefaultIntervalMs,
                  error_counts |-> [c \in IF counts[i] = 0 THEN {} ELSE BulkCodes |-> counts[i]],
                  total_count |-> counts[i]]]
         /\ current_bucket = n
         /\ total_events = SumOver(counts, 1..n)
  /\ lock = "none"
  /\ recent_events = 1
  /\ listObj = [i \in {1} |-> << >>]
  /\ InitCallers
  /\ budget = [t \in Threads |-> IF t = EvictThread THEN 1 ELSE 0]
  /\ ticks = 0

\* before MetricsConfig(...) and ErrorMetricsCollector(config) are called:
\* config holds the arguments
InitConfig ==
  /\ \E i \in CandidateIntervals, m \in CandidateMaxEvents :
       config = [collection_interval_ms |-> i, max_events |-> m]
  /\ clock = 0
  /\ collector = "none"
  /\ InitFields
  /\ budget = [t \in Threads |-> IF t = ConfigThread THEN ConfigCalls ELSE 0]
  /\ ticks = 0

----------------------------------------------------------------------------
\* Construction: MetricsConfig(...) validates in __post_init__ and raises
\* ValueError, or ErrorMetricsCollector(config) sets the fields
\* (config.py:62-71, collector.py:192-197)

Construct ==
  /\ collector = "none"
  /\ IF ValidConfig(config)
     THEN /\ collector' = "constructed"
          /\ lock' = "none"
          /\ total_events' = 0
          /\ buckets' = << >>
          /\ current_bucket' = 0
          /\ listObj' = [listObj EXCEPT ![recent_events] = << >>]
     ELSE /\ collector' = "rejected"
          /\ UNCHANGED << lock, total_events, buckets, current_bucket, listObj >>
  /\ UNCHANGED << config, clock, recent_events, bucketObj, nextEvent, pc, ev,
                  arg, tmp, ret, budget, ticks, log, recorded, completed,
                  cleared, clearClock, dropped, lastSnap,
                  lastOpened, policyRemoved >>

----------------------------------------------------------------------------
\* _enforce_max_events() called on its own (collector.py:372-387)

EnforceMaxEvents(t) ==
  /\ collector = "constructed"
  /\ pc[t] = Idle
  /\ budget[t] > 0
  /\ LockFree
  /\ budget' = [budget EXCEPT ![t] = @ - 1]
  /\ buckets' = _enforce_max_events(buckets, bucketObj)
  /\ policyRemoved' = (policyRemoved \/ buckets' # buckets)
  /\ dropped' = (dropped \/ buckets' # buckets)
  /\ UNCHANGED << config, clock, lock, total_events, current_bucket,
                  recent_events, bucketObj, listObj, nextEvent, pc, ev, arg,
                  tmp, ret, ticks, log, recorded, completed, cleared,
                  clearClock, collector, lastSnap, lastOpened >>

----------------------------------------------------------------------------
\* The clock

Tick(d) ==
  /\ ticks > 0
  /\ clock' = clock + d
  /\ ticks' = ticks - 1
  /\ UNCHANGED << config, lock, total_events, buckets, current_bucket,
                  recent_events, bucketObj, listObj, nextEvent, pc, ev, arg,
                  tmp, ret, budget, log, recorded, completed, cleared,
                  clearClock, dropped,
                  collector, lastSnap,
                  lastOpened, policyRemoved >>

----------------------------------------------------------------------------
\* record()  (collector.py:211-280)

\* lines 241-249: the ErrorEvent is built, and its timestamp taken, before the
\* lock; every caller passes its own name as the message
RecordCall(t, code) ==
  /\ collector = "constructed"
  /\ pc[t] = Idle
  /\ budget[t] > 0
  /\ budget' = [budget EXCEPT ![t] = @ - 1]
  /\ ev' = [ev EXCEPT ![t] = [id |-> nextEvent, code |-> code,
                               message |-> t, ts |-> clock]]
  /\ nextEvent' = nextEvent + 1
  /\ ret' = [ret EXCEPT ![t] = NoReturn]
  /\ pc' = [pc EXCEPT ![t] = At("record", "acquire")]
  /\ bucketObj' = Restrict(bucketObj, LiveBuckets(buckets, current_bucket, ret'))
  /\ listObj' = Restrict(listObj, LiveLists(recent_events, ret'))
  /\ UNCHANGED << config, clock, lock, total_events, buckets, current_bucket,
                  recent_events, arg, tmp, ticks, log, recorded, completed, cleared, clearClock, dropped,
                  collector, lastSnap,
                  lastOpened, policyRemoved >>

\* "with self._lock:" (lines 208, 251, 292, 329, 343, 352)
Acquire(t) ==
  /\ pc[t].at = "acquire"
  /\ LockFree
  /\ lock' = t
  /\ pc' = [pc EXCEPT ![t] = At(pc[t].op, IF pc[t].op = "record" THEN "bucket" ELSE "body")]
  /\ UNCHANGED << config, clock, total_events, buckets, current_bucket,
                  recent_events, bucketObj, listObj, nextEvent, ev, arg, tmp,
                  ret, budget, ticks, log, recorded, completed, cleared,
                  clearClock, dropped,
                  collector, lastSnap,
                  lastOpened, policyRemoved >>

\* lines 253-269: get or create the current bucket, expiry sweep, max_events
RecordBucket(t) ==
  /\ pc[t] = At("record", "bucket")
  /\ LET current_time == clock
     IN IF NeedNewBucket(current_bucket, bucketObj, current_time)
        THEN LET bucket_start == BucketStart(current_time)
                 bucket_end == bucket_start + bucket_duration
                 ref == FreshRef(bucketObj)
                 heap == [i \in (DOMAIN bucketObj) \cup {ref} |->
                            IF i = ref THEN NewTimeBucket(bucket_start, bucket_end)
                            ELSE bucketObj[i]]
                 inserted == OrderedDictSet(buckets, bucket_start, ref)
                 swept == _cleanup_expired_buckets(inserted, heap, current_time)
                 kept == _enforce_max_events(swept, heap)
             IN /\ current_bucket' = ref
                /\ buckets' = kept
                /\ bucketObj' = Restrict(heap, LiveBuckets(kept, ref, ret))
                /\ dropped' = (dropped \/ ~((Refs(buckets) \cup {ref}) \subseteq Refs(kept)))
                /\ lastOpened' = current_time
                /\ policyRemoved' = (policyRemoved \/ kept # swept)
        ELSE UNCHANGED << current_bucket, buckets, bucketObj, dropped,
                          lastOpened, policyRemoved >>
  /\ pc' = [pc EXCEPT ![t] = At("record", "add")]
  /\ lastSnap' = NoSnap
  /\ UNCHANGED << config, clock, lock, total_events, recent_events, listObj,
                  nextEvent, ev, arg, tmp, ret, budget, ticks, log, recorded, completed,
                  cleared, clearClock, collector >>

\* line 272: self._current_bucket.add_event(event)
RecordAdd(t) ==
  /\ pc[t] = At("record", "add")
  /\ IF current_bucket \in DOMAIN bucketObj
     THEN /\ bucketObj' = [bucketObj EXCEPT ![current_bucket] = add_event(@, ev[t])]
          /\ pc' = [pc EXCEPT ![t] = At("record", "load")]
          /\ UNCHANGED << lock, ret >>
     ELSE \* AttributeError on None: the with block releases the lock
          /\ pc' = [pc EXCEPT ![t] = Idle]
          /\ lock' = ReleasedLock(t)
          /\ ret' = [ret EXCEPT ![t] = [kind |-> "raised"]]
          /\ UNCHANGED bucketObj
  /\ UNCHANGED << config, clock, total_events, buckets, current_bucket,
                  recent_events, listObj, nextEvent, ev, arg, tmp, budget,
                  ticks, log, recorded, completed, cleared, clearClock, dropped,
                  collector, lastSnap,
                  lastOpened, policyRemoved >>

\* line 273, first half: load self._total_events
RecordLoad(t) ==
  /\ pc[t] = At("record", "load")
  /\ tmp' = [tmp EXCEPT ![t] = total_events]
  /\ pc' = [pc EXCEPT ![t] = At("record", "store")]
  /\ UNCHANGED << config, clock, lock, total_events, buckets, current_bucket,
                  recent_events, bucketObj, listObj, nextEvent, ev, arg, ret,
                  budget, ticks, log, recorded, completed, cleared, clearClock,
                  dropped,
                  collector, lastSnap,
                  lastOpened, policyRemoved >>

\* line 273, second half: store the incremented value
RecordStore(t) ==
  /\ pc[t] = At("record", "store")
  /\ total_events' = tmp[t] + 1
  /\ tmp' = [tmp EXCEPT ![t] = 0]
  /\ pc' = [pc EXCEPT ![t] = At("record", "recent")]
  /\ UNCHANGED << config, clock, lock, buckets, current_bucket, recent_events,
                  bucketObj, listObj, nextEvent, ev, arg, ret, budget, ticks,
                  log, recorded, completed, cleared, clearClock, dropped,
                  collector, lastSnap,
                  lastOpened, policyRemoved >>

\* lines 276-278: append to the recent events, keep the last 1000
RecordRecent(t) ==
  /\ pc[t] = At("record", "recent")
  /\ LET appended == AppendRecent(listObj[recent_events], ev[t])
         trimmed == TrimRecent(appended)
         rebound == Len(appended) > RecentLimit
         ref == IF rebound THEN FreshRef(listObj) ELSE recent_events
         heap == [i \in (DOMAIN listObj) \cup {ref} |->
                    IF i = ref THEN trimmed
                    ELSE IF i = recent_events THEN appended
                    ELSE listObj[i]]
     IN /\ recent_events' = ref
        /\ listObj' = Restrict(heap, LiveLists(ref, ret))
  /\ log' = Append(log, ev[t].id)
  /\ recorded' = [recorded EXCEPT ![ev[t].code] = @ + 1]
  /\ pc' = [pc EXCEPT ![t] = At("record", "release")]
  /\ UNCHANGED << config, clock, lock, total_events, buckets, current_bucket,
                  bucketObj, nextEvent, ev, arg, tmp, ret, budget, ticks,
                  completed, cleared, clearClock, dropped,
                  collector, lastSnap,
                  lastOpened, policyRemoved >>

\* end of the with block, then line 280: return event.event_id
RecordReturn(t) ==
  /\ pc[t] = At("record", "release")
  /\ lock' = ReleasedLock(t)
  /\ ret' = [ret EXCEPT ![t] = [kind |-> "event_id", id |-> ev[t].id]]
  /\ ev' = [ev EXCEPT ![t] = NoEvent]
  /\ pc' = [pc EXCEPT ![t] = Idle]
  /\ completed' = completed + 1
  /\ UNCHANGED << config, clock, total_events, buckets, current_bucket,
                  recent_events, bucketObj, listObj, nextEvent, arg, tmp,
                  budget, ticks, log, recorded, cleared, clearClock, dropped,
                  collector, lastSnap,
                  lastOpened, policyRemoved >>

----------------------------------------------------------------------------
\* The other calls: nothing happens before the lock is taken

Call(t, op, limit) ==
  /\ collector = "constructed"
  /\ pc[t] = Idle
  /\ budget[t] > 0
  /\ budget' = [budget EXCEPT ![t] = @ - 1]
  /\ arg' = [arg EXCEPT ![t] = limit]
  /\ ret' = [ret EXCEPT ![t] = NoReturn]
  /\ pc' = [pc EXCEPT ![t] = At(op, "acquire")]
  /\ bucketObj' = Restrict(bucketObj, LiveBuckets(buckets, current_bucket, ret'))
  /\ listObj' = Restrict(listObj, LiveLists(recent_events, ret'))
  /\ UNCHANGED << config, clock, lock, total_events, buckets, current_bucket,
                  recent_events, nextEvent, ev, tmp, ticks, log, recorded, completed,
                  cleared, clearClock, dropped,
                  collector, lastSnap,
                  lastOpened, policyRemoved >>

\* get_snapshot()  (collector.py:292-307)
GetSnapshotBody(t) ==
  /\ pc[t] = At("snapshot", "body")
  /\ LET ref == SnapshotListRef(listObj, recent_events)
         heap == [i \in (DOMAIN listObj) \cup {ref} |->
                    IF i = ref THEN listObj[recent_events] ELSE listObj[i]]
     IN /\ ret' = [ret EXCEPT ![t] =
                     [kind |-> "snapshot",
                      total_errors |-> SnapshotTotal(total_events, buckets, bucketObj),
                      error_counts |-> AggregateCounts(buckets, bucketObj),
                      recent_events |-> ref,
                      bucket_count |-> Len(buckets),
                      timestamp |-> clock]]
        /\ listObj' = heap
  /\ lastSnap' = Seen(ret'[t].total_errors, ret'[t].error_counts, lastSnap)
  /\ buckets' = IteratedBuckets(buckets, bucketObj, clock)
  /\ pc' = [pc EXCEPT ![t] = At("snapshot", "release")]
  /\ UNCHANGED << config, clock, lock, total_events, current_bucket,
                  recent_events, bucketObj, nextEvent, ev, arg, tmp, budget,
                  ticks, log, recorded, completed, cleared, clearClock, dropped,
                  collector,
                  lastOpened, policyRemoved >>

\* get_error_counts_by_code()  (collector.py:316-317): get_snapshot().error_counts
GetErrorCountsBody(t) ==
  /\ pc[t] = At("counts", "body")
  /\ ret' = [ret EXCEPT ![t] =
               [kind |-> "counts",
                error_counts |-> AggregateCounts(buckets, bucketObj)]]
  /\ lastSnap' = Seen(SnapshotTotal(total_events, buckets, bucketObj),
                     ret'[t].error_counts, lastSnap)
  /\ buckets' = IteratedBuckets(buckets, bucketObj, clock)
  /\ pc' = [pc EXCEPT ![t] = At("counts", "release")]
  /\ UNCHANGED << config, clock, lock, total_events, current_bucket,
                  recent_events, bucketObj, listObj, nextEvent, ev, arg, tmp,
                  budget, ticks, log, recorded, completed, cleared, clearClock,
                  dropped, collector,
                  lastOpened, policyRemoved >>

\* get_recent_events(limit)  (collector.py:329-334)
GetRecentEventsBody(t) ==
  /\ pc[t] = At("recent", "body")
  /\ ret' = [ret EXCEPT ![t] =
               [kind |-> "events",
                events |-> RecentEvents(listObj[recent_events], arg[t])]]
  /\ pc' = [pc EXCEPT ![t] = At("recent", "release")]
  /\ UNCHANGED << config, clock, lock, total_events, buckets, current_bucket,
                  recent_events, bucketObj, listObj, nextEvent, ev, arg, tmp,
                  budget, ticks, log, recorded, completed, cleared, clearClock,
                  dropped,
                  collector, lastSnap,
                  lastOpened, policyRemoved >>

\* get_buckets()  (collector.py:343-344): a new list of the same TimeBucket objects
GetBucketsBody(t) ==
  /\ pc[t] = At("buckets", "body")
  /\ ret' = [ret EXCEPT ![t] =
               [kind |-> "buckets",
                refs |-> [i \in 1..Len(buckets) |-> buckets[i].ref]]]
  /\ pc' = [pc EXCEPT ![t] = At("buckets", "release")]
  /\ UNCHANGED << config, clock, lock, total_events, buckets, current_bucket,
                  recent_events, bucketObj, listObj, nextEvent, ev, arg, tmp,
                  budget, ticks, log, recorded, completed, cleared, clearClock,
                  dropped,
                  collector, lastSnap,
                  lastOpened, policyRemoved >>

\* total_events  (collector.py:208-209)
TotalEventsBody(t) ==
  /\ pc[t] = At("total", "body")
  /\ ret' = [ret EXCEPT ![t] = [kind |-> "total", value |-> total_events]]
  /\ pc' = [pc EXCEPT ![t] = At("total", "release")]
  /\ UNCHANGED << config, clock, lock, total_events, buckets, current_bucket,
                  recent_events, bucketObj, listObj, nextEvent, ev, arg, tmp,
                  budget, ticks, log, recorded, completed, cleared, clearClock,
                  dropped,
                  collector, lastSnap,
                  lastOpened, policyRemoved >>

\* clear()  (collector.py:352-356)
ClearBody(t) ==
  /\ pc[t] = At("clear", "body")
  /\ total_events' = 0
  /\ buckets' = << >>
  /\ current_bucket' = ClearedCurrentBucket(current_bucket)
  /\ listObj' = [listObj EXCEPT ![recent_events] = << >>]
  /\ bucketObj' = Restrict(bucketObj, LiveBuckets(<< >>, current_bucket', ret))
  /\ lastSnap' = NoSnap
  /\ pc' = [pc EXCEPT ![t] = At("clear", "release")]
  /\ log' = << >>
  /\ recorded' = [c \in Codes |-> 0]
  /\ completed' = 0
  /\ cleared' = TRUE
  /\ clearClock' = clock
  /\ dropped' = FALSE
  /\ lastOpened' = NoTime
  /\ UNCHANGED << config, clock, lock, recent_events, nextEvent, ev, arg, tmp,
                  ret, budget, ticks, collector, policyRemoved >>

\* end of the with block of a call other than record(): the lock is released
Release(t) ==
  /\ pc[t].at = "release"
  /\ pc[t].op \in LockedOps
  /\ lock' = ReleasedLock(t)
  /\ arg' = [arg EXCEPT ![t] = 0]
  /\ pc' = [pc EXCEPT ![t] = Idle]
  /\ ret' = [ret EXCEPT ![t] = IF @.kind \in KeptKinds THEN @ ELSE NoReturn]
  /\ UNCHANGED << config, clock, total_events, buckets, current_bucket,
                  recent_events, bucketObj, listObj, nextEvent, ev, tmp,
                  budget, ticks, log, recorded, completed, cleared,
                  clearClock, dropped,
                  collector, lastSnap,
                  lastOpened, policyRemoved >>

----------------------------------------------------------------------------
\* Specifications

\* Concurrent callers: every thread runs any calls, the clock advances
Next ==
  \/ \E d \in Deltas : Tick(d)
  \/ \E t \in Threads, code \in Codes : RecordCall(t, code)
  \/ \E t \in Threads : Acquire(t)
  \/ \E t \in Threads : RecordBucket(t)
  \/ \E t \in Threads : RecordAdd(t)
  \/ \E t \in Threads : RecordLoad(t)
  \/ \E t \in Threads : RecordStore(t)
  \/ \E t \in Threads : RecordRecent(t)
  \/ \E t \in Threads : RecordReturn(t)
  \/ \E t \in Threads, op \in LockedOps \ {"recent"} : Call(t, op, 0)
  \/ \E t \in Threads, limit \in Limits : Call(t, "recent", limit)
  \/ \E t \in Threads : GetSnapshotBody(t)
  \/ \E t \in Threads : GetErrorCountsBody(t)
  \/ \E t \in Threads : GetRecentEventsBody(t)
  \/ \E t \in Threads : GetBucketsBody(t)
  \/ \E t \in Threads : TotalEventsBody(t)
  \/ \E t \in Threads : ClearBody(t)
  \/ \E t \in Threads : Release(t)

Spec == Init /\ [][Next]_vars

\* One thread records in a loop (more events than max_events and than the
\* recent-events buffer keeps) while another reads the recent events
NextBulk ==
  \/ \E code \in BulkCodes : RecordCall(BulkThread, code)
  \/ \E t \in {BulkThread, BulkReader} : Acquire(t)
  \/ RecordBucket(BulkThread)
  \/ RecordAdd(BulkThread)
  \/ RecordLoad(BulkThread)
  \/ RecordStore(BulkThread)
  \/ RecordRecent(BulkThread)
  \/ RecordReturn(BulkThread)
  \/ \E limit \in BulkLimits : Call(BulkReader, "recent", limit)
  \/ GetRecentEventsBody(BulkReader)
  \/ Release(BulkReader)

SpecBulk == InitBulk /\ [][NextBulk]_vars

\* Fair scheduling: a thread inside a call that can take its next step
\* (the lock is free when it waits for it) eventually takes it.  Nothing
\* obliges a caller to start a call, or the clock to advance.
Progress(t) ==
  \/ Acquire(t)
  \/ RecordBucket(t)
  \/ RecordAdd(t)
  \/ RecordLoad(t)
  \/ RecordStore(t)
  \/ RecordRecent(t)
  \/ RecordReturn(t)
  \/ GetSnapshotBody(t)
  \/ GetErrorCountsBody(t)
  \/ GetRecentEventsBody(t)
  \/ GetBucketsBody(t)
  \/ TotalEventsBody(t)
  \/ ClearBody(t)
  \/ Release(t)

Fairness == \A t \in Threads : WF_vars(Progress(t))

SpecFair == Init /\ [][Next]_vars /\ Fairness

\* _enforce_max_events applied to collections of several buckets
NextEvict == EnforceMaxEvents(EvictThread)

SpecEvict == InitEvict /\ [][NextEvict]_vars

\* record() calls by one caller, past max_events, while the clock advances
NextPressure ==
  \/ \E d \in PressureDeltas : Tick(d)
  \/ \E code \in BulkCodes : RecordCall(PressureThread, code)
  \/ Acquire(PressureThread)
  \/ RecordBucket(PressureThread)
  \/ RecordAdd(PressureThread)
  \/ RecordLoad(PressureThread)
  \/ RecordStore(PressureThread)
  \/ RecordRecent(PressureThread)
  \/ RecordReturn(PressureThread)

SpecPressure == InitPressure /\ [][NextPressure]_vars

\* Construction from any arguments, then record() calls by one caller
NextConfig ==
  \/ Construct
  \/ \E code \in Codes : RecordCall(ConfigThread, code)
  \/ Acquire(ConfigThread)
  \/ RecordBucket(ConfigThread)
  \/ RecordAdd(ConfigThread)
  \/ RecordLoad(ConfigThread)
  \/ RecordStore(ConfigThread)
  \/ RecordRecent(ConfigThread)
  \/ RecordReturn(ConfigThread)

SpecConfig == InitConfig /\ [][NextConfig]_vars

----------------------------------------------------------------------------
\* Observations used by the properties

\* the list object behind self._recent_events
Buffer == listObj[recent_events]

\* d.get(c, 0)
DictGet(d, c) == IF c \in DOMAIN d THEN d[c] ELSE 0

AllIdle == \A t \in Threads : pc[t] = Idle

InCriticalSection(t) == pc[t].at \notin {"idle", "acquire"}

\* seq holds the m last entries of source, the last one first
MostRecentFirst(seq, source, m) ==
  /\ Len(seq) = m
  /\ \A i \in 1..m : seq[i] = source[Len(source) - i + 1]

\* the event ids of a sequence of events
Ids(events) == [i \in 1..Len(events) |-> events[i].id]

\* the collector's fields as __init__ leaves them (collector.py:194-197)
FreshCollector ==
  /\ total_events = 0
  /\ buckets = << >>
  /\ current_bucket = 0
  /\ Buffer = << >>

\* the collector's fields, and the list behind self._recent_events
CollectorState ==
  << total_events, buckets, current_bucket, recent_events, Buffer,
     [r \in Refs(buckets) \cup ({current_bucket} \ {0}) |-> bucketObj[r]] >>

\* the buckets of a collection from position k on
SuffixFrom(bs, k) == SubSeq(bs, k, Len(bs))

\* thread t takes the step from position a to position b of the call op
Steps(t, op, a, b) == pc[t] = At(op, a) /\ pc'[t] = At(op, b)

\* thread t leaves the with block of the call op and returns
Returns(t, op) == pc[t] = At(op, "release") /\ pc'[t] = Idle

\* what the first record() on a fresh collector leaves
FirstRecordOutcome ==
  /\ total_events = 1
  /\ Len(Buffer) = 1
  /\ Len(buckets) <= 1
  /\ current_bucket \in DOMAIN bucketObj
  /\ bucketObj[current_bucket].total_count = 1

----------------------------------------------------------------------------
\* C1: when every record() call made by the concurrent threads has returned
\* and clear() was never called, total_events equals the number of calls made
\* (no lost update, no double count).
C1_NoLostUpdate ==
  (AllIdle /\ ~cleared) => total_events = completed

C1_Witness ==
  /\ AllIdle
  /\ ~cleared
  /\ \A t \in Threads : budget[t] = 0
  /\ completed = Cardinality(Threads) * ConcCalls
  /\ total_events = completed

C3_CountsMatchRecorded ==
  \A t \in Threads :
    /\ (pc[t] = At("snapshot", "release") /\ clock = clearClock) =>
         /\ \A c \in Codes : DictGet(ret[t].error_counts, c) = recorded[c]
         /\ DictSum(ret[t].error_counts) = ret[t].total_errors
    /\ (pc[t] = At("counts", "release") /\ clock = clearClock) =>
         \A c \in Codes : DictGet(ret[t].error_counts, c) = recorded[c]

\* C4 (as claimed): between calls, the sum of total_count over the buckets of
\* the collection is at most max_events.
C4_EstimateBounded ==
  LockFree => EstimatedTotal(buckets, bucketObj) <= config.max_events

\* C5 (as claimed): the collector never retains more than max_events events.
C5_RetainedBounded ==
  Len(Buffer) <= config.max_events

\* C6: the list of recent events of a snapshot a caller holds is left as it
\* was by every step of every thread (its other fields are values of the
\* snapshot object itself).
C6_SnapshotNeverMutated ==
  [][\A t \in Threads :
       (ret[t].kind = "snapshot" /\ ret'[t] = ret[t]) =>
          listObj'[ret[t].recent_events] = listObj[ret[t].recent_events]]_vars

C6_Witness ==
  \E t \in Threads :
    /\ ret[t].kind = "snapshot"
    /\ pc[t] = Idle
    /\ Len(listObj[ret[t].recent_events]) >= 1
    /\ listObj[ret[t].recent_events] # Buffer
    /\ ret[t].total_errors # total_events

\* C7: get_snapshot() runs while no other thread is inside a critical
\* section, and every snapshot has sum(error_counts) <= total_errors and no
\* more recent events than total_errors counts.
C7_SnapshotConsistent ==
  \A t \in Threads :
    /\ pc[t] = At("snapshot", "release") =>
         \A u \in Threads \ {t} : ~InCriticalSection(u)
    /\ ret[t].kind = "snapshot" =>
         /\ DictSum(ret[t].error_counts) <= ret[t].total_errors
         /\ Len(listObj[ret[t].recent_events]) <= ret[t].total_errors

C7_Witness ==
  \E t \in Threads, u \in Threads :
    /\ pc[t] = At("snapshot", "release")
    /\ pc[u] = At("record", "acquire")
    /\ ret[t].total_errors >= 1
    /\ DictSum(ret[t].error_counts) >= 1

\* C8: get_recent_events(k) with k > 0 returns the min(k, n) last entries of
\* the n entries of the recent-events buffer, the last inserted first.
C8_RecentEventsOrder ==
  \A t \in Threads :
    (pc[t] = At("recent", "release") /\ arg[t] > 0) =>
       MostRecentFirst(ret[t].events, Buffer, Min(arg[t], Len(Buffer)))

C8_Witness ==
  \E t \in Threads :
    /\ pc[t] = At("recent", "release")
    /\ arg[t] > 0
    /\ arg[t] < Len(Buffer)
    /\ Len(ret[t].events) = arg[t]
    /\ ret[t].events[1].id > ret[t].events[arg[t]].id

\* C9: the recent-events buffer holds at most 1000 events: the min(1000, n)
\* most recent of the n events recorded since the last clear(), in insertion
\* order.
C9_BufferIsLogTail ==
  LET n == Len(log)
      m == Min(RecentLimit, n)
  IN /\ Len(Buffer) <= RecentLimit
     /\ Len(Buffer) = m
     /\ \A i \in 1..m : Buffer[i].id = log[n - m + i]

C9_Witness ==
  /\ Len(log) > RecentLimit
  /\ Len(Buffer) = RecentLimit
  /\ Buffer[1].id = log[Len(log) - RecentLimit + 1]

\* C10: once more events than max_events were recorded, or a bucket was
\* dropped, get_recent_events(k) with k > 0 still returns the most recently
\* recorded events, the last recorded first: k of them, or all that were
\* recorded or that the buffer keeps when these are fewer.
C10_RecentSurvivesEviction ==
  \A t \in Threads :
    (/\ pc[t] = At("recent", "release")
     /\ arg[t] > 0
     /\ (Len(log) > config.max_events \/ dropped)) =>
       MostRecentFirst(Ids(ret[t].events), log,
                       Min(arg[t], Min(Len(log), RecentLimit)))

C10_Witness ==
  \E t \in Threads :
    /\ pc[t] = At("recent", "release")
    /\ arg[t] > 0
    /\ Len(log) > config.max_events
    /\ dropped
    /\ Len(ret[t].events) = arg[t]
    /\ ret[t].events[1].id = log[Len(log)]

\* C11: the body of clear() leaves total_events = 0, no buckets, an empty
\* recent-events buffer and no current bucket, whatever the state before; run
\* on a collector already in that state it changes nothing; and the first
\* record() to return after it leaves what it leaves on a new collector.
C11_ClearResets ==
  [][\A t \in Threads :
       /\ Steps(t, "clear", "body", "release") =>
            /\ FreshCollector'
            /\ FreshCollector => CollectorState' = CollectorState
       /\ (Returns(t, "record") /\ completed' = 1) =>
            FirstRecordOutcome']_vars

C11_Witness ==
  \E t \in Threads, u \in Threads :
    /\ pc[t] = At("clear", "release")
    /\ FreshCollector
    /\ ret[u].kind = "snapshot"
    /\ ret[u].total_errors >= 1
    /\ DictSum(ret[u].error_counts) >= 1
    /\ Len(listObj[ret[u].recent_events]) >= 1

\* C12: total_events changes only in the increment of record(), by exactly
\* +1, and in clear(); every other step (the reads, the opening of a bucket
\* with its expiry sweep and eviction, the clock) leaves it as it is, so it
\* never decreases except through clear().
C12_TotalEventsMonotone ==
  [][/\ total_events' # total_events =>
          \E t \in Threads : \/ Steps(t, "record", "store", "recent")
                             \/ Steps(t, "clear", "body", "release")
     /\ total_events' < total_events =>
          \E t \in Threads : Steps(t, "clear", "body", "release")
     /\ \A t \in Threads :
          Steps(t, "record", "store", "recent") => total_events' = total_events + 1]_vars

C12_Witness ==
  \E t \in Threads :
    /\ pc[t] = Idle
    /\ ret[t].kind = "buckets"
    /\ dropped
    /\ total_events >= 2
    /\ EstimatedTotal(buckets, bucketObj) < total_events

\* C13 (as claimed): the buckets of a list returned by get_buckets() keep the
\* total_count and error_counts they had when the call returned, whatever
\* record() and clear() calls run afterwards.
C13_BucketsNeverMutated ==
  [][\A t \in Threads :
       (ret[t].kind = "buckets" /\ ret'[t] = ret[t]) =>
          \A i \in 1..Len(ret[t].refs) :
             /\ bucketObj'[ret[t].refs[i]].total_count =
                  bucketObj[ret[t].refs[i]].total_count
             /\ bucketObj'[ret[t].refs[i]].error_counts =
                  bucketObj[ret[t].refs[i]].error_counts]_vars

\* C14 (as claimed): every bucket get_buckets() returns, and every bucket
\* get_snapshot() counts in bucket_count and error_counts, is not expired at
\* the time the call reads the collection: the current time does not exceed
\* its end_time.
C14_ReturnedBucketsActive ==
  [][\A t \in Threads :
       /\ Steps(t, "buckets", "body", "release") =>
            \A i \in 1..Len(ret'[t].refs) :
               ~is_expired(bucketObj[ret'[t].refs[i]], clock)
       /\ Steps(t, "snapshot", "body", "release") =>
            \A i \in 1..Len(buckets) :
               ~is_expired(bucketObj[buckets[i].ref], clock)]_vars

\* C15: get_snapshot() (also when called by get_error_counts_by_code())
\* leaves total_events, the buckets, the current bucket and the recent
\* events as they were, and when an earlier get_snapshot() read the collector
\* and no record() or clear() wrote to it since, it returns the same
\* total_errors and error_counts, whatever the clock did in between.
C15_SnapshotIdempotent ==
  [][\A t \in Threads :
       /\ Steps(t, "snapshot", "body", "release") =>
            /\ CollectorState' = CollectorState
            /\ lastSnap.valid =>
                 /\ ret'[t].total_errors = lastSnap.total_errors
                 /\ ret'[t].error_counts = lastSnap.error_counts
       /\ Steps(t, "counts", "body", "release") =>
            /\ CollectorState' = CollectorState
            /\ lastSnap.valid => ret'[t].error_counts = lastSnap.error_counts]_vars

C15_Witness ==
  \E t \in Threads :
    /\ pc[t] = At("snapshot", "release")
    /\ lastSnap.again
    /\ ret[t].total_errors >= 1
    /\ DictSum(ret[t].error_counts) >= 1
    /\ \E i \in 1..Len(buckets) : is_expired(bucketObj[buckets[i].ref], clock)

\* C16: get_recent_events(limit) with limit <= 0 returns an empty sequence
\* whatever the recent-events buffer holds, and leaves the collector's fields
\* as they were.
C16_NonPositiveLimit ==
  [][\A t \in Threads :
       (Steps(t, "recent", "body", "release") /\ arg[t] <= 0) =>
          /\ ret'[t].events = << >>
          /\ CollectorState' = CollectorState]_vars

C16_Witness ==
  \E t \in Threads :
    /\ pc[t] = At("recent", "release")
    /\ arg[t] = 0
    /\ Len(Buffer) >= 2
    /\ ret[t].events = << >>

\* C17: two events recorded by the same caller (same message; ids grow in
\* the order record() was invoked) lie in the recent-events buffer in the
\* order that caller invoked record(), and in the reverse order in a list
\* get_recent_events() returns, whatever the other thread records; and at
\* most one thread is inside a critical section.
C17_CallerOrderKept ==
  /\ \A i \in 1..Len(Buffer), j \in 1..Len(Buffer) :
        (i < j /\ Buffer[i].message = Buffer[j].message) =>
           Buffer[i].id < Buffer[j].id
  /\ \A t \in Threads :
        pc[t] = At("recent", "release") =>
          \A i \in 1..Len(ret[t].events), j \in 1..Len(ret[t].events) :
            (i < j /\ ret[t].events[i].message = ret[t].events[j].message) =>
               ret[t].events[i].id > ret[t].events[j].id
  /\ \A t \in Threads, u \in Threads :
        (InCriticalSection(t) /\ InCriticalSection(u)) => t = u

C17_Witness ==
  /\ Len(Buffer) >= 3
  /\ Buffer[1].message = Buffer[3].message
  /\ Buffer[1].message # Buffer[2].message
  /\ Buffer[1].id > Buffer[2].id
  /\ Buffer[1].id < Buffer[3].id

\* C18: when get_snapshot() returns, its error_counts holds, for every code,
\* the sum of that code's count over the buckets of the collection (and no
\* other code), so its values sum to the sum of total_count over those
\* buckets.
C18_CountsAreBucketSums ==
  \A t \in Threads :
    pc[t] = At("snapshot", "release") =>
      LET counts == ret[t].error_counts
          InBucket(i, c) == DictGet(bucketObj[buckets[i].ref].error_counts, c)
      IN /\ \A c \in Codes :
              DictGet(counts, c) =
                SumOver([i \in 1..Len(buckets) |-> InBucket(i, c)], 1..Len(buckets))
         /\ DOMAIN counts \subseteq Codes
         /\ \A c \in DOMAIN counts : counts[c] >= 1
         /\ DictSum(counts) = EstimatedTotal(buckets, bucketObj)
         /\ ret[t].bucket_count = Len(buckets)

C18_Witness ==
  \E t \in Threads :
    /\ pc[t] = At("snapshot", "release")
    /\ Len(buckets) = 1
    /\ DOMAIN ret[t].error_counts = Codes
    /\ DictSum(ret[t].error_counts) >= 3
    /\ DictSum(ret[t].error_counts) = bucketObj[buckets[1].ref].total_count

\* C19: construction never changes the values passed to MetricsConfig() (no
\* clamping); it yields a collector exactly when collection_interval_ms >=
\* 1000 and 100 <= max_events <= 1,000,000 and is rejected otherwise; and
\* without a constructed collector nothing is ever recorded.
C19_OnlyValidConfigRuns ==
  [][LET InRange(c) == /\ c.collection_interval_ms >= MinIntervalMs
                       /\ c.max_events >= MinMaxEvents
                       /\ c.max_events <= MaxMaxEvents
     IN /\ config' = config
        /\ collector' = "constructed" => InRange(config')
        /\ (collector = "none" /\ collector' # "none") =>
             (collector' = "rejected" <=> ~InRange(config))
        /\ collector = "rejected" => collector' = "rejected"
        /\ collector' # "constructed" =>
             (AllIdle' /\ FreshCollector' /\ nextEvent' = 1)]_vars

C19_Witness ==
  /\ collector = "rejected"
  /\ config.collection_interval_ms = MinIntervalMs
  /\ config.max_events = MaxMaxEvents + 1
  /\ AllIdle
  /\ FreshCollector
  /\ budget[ConfigThread] = ConfigCalls

\* C20: under fair scheduling every call that was started returns, and
\* every thread waiting for the lock gets it; a thread that is not inside a
\* call does not hold the lock, and a thread that waits for the lock does
\* not hold it already (no nested acquisition).
C20_NoHang ==
  /\ \A t \in Threads : (pc[t] # Idle) ~> (pc[t] = Idle)
  /\ \A t \in Threads : (pc[t].at = "acquire") ~> (lock = t)
  /\ [](\A t \in Threads : pc[t].at \in {"idle", "acquire"} => lock # t)

C20_Witness ==
  \E t \in Threads, u \in Threads :
    /\ t # u
    /\ pc[t] = At("clear", "acquire")
    /\ pc[u] = At("record", "store")
    /\ lock = u
    /\ budget[t] = 0
    /\ budget[u] = 0

Opens(t) ==
  /\ Steps(t, "record", "bucket", "add")
  /\ NeedNewBucket(current_bucket, bucketObj, clock)

\* C22 (as claimed): whenever record() opens a bucket at time now,
\* start_time <= now < end_time holds for it, and it is in the collection
\* after the expiry sweep and the max_events policy of that call.
C22_NewBucketCoversNow ==
  [][\A t \in Threads :
       Opens(t) =>
         /\ bucketObj'[current_bucket'].start_time <= clock
         /\ clock < bucketObj'[current_bucket'].end_time
         /\ current_bucket' \in Refs(buckets')]_vars

\* C23 (as claimed): two record() calls that each open a new bucket, with no
\* clear() between them, read clock values at least collection_interval_ms
\* apart.
C23_OpeningsOneIntervalApart ==
  [][\A t \in Threads :
       (Opens(t) /\ lastOpened # NoTime) =>
         clock - lastOpened >= config.collection_interval_ms]_vars

\* thread t takes the step of record() that settles the bucket of its event
\* while a current bucket exists
Settles(t) ==
  /\ Steps(t, "record", "bucket", "add")
  /\ current_bucket \in DOMAIN bucketObj

\* C24 (as claimed): windows are half-open: a record() call that finds a
\* current bucket adds to it only while now < end_time; at now = end_time it
\* opens a new bucket.
C24_HalfOpenWindows ==
  [][\A t \in Threads :
       (Settles(t) /\ clock >= bucketObj[current_bucket].end_time) =>
         current_bucket' # current_bucket]_vars

\* C24 (amended): windows are closed at end_time: a record() call that finds
\* a current bucket keeps it, and adds its event to it, exactly when
\* now <= end_time; only at now > end_time it opens a new bucket, and the
\* bounds of the kept bucket are left as they were.
C24_ClosedWindows ==
  [][\A t \in Threads :
       Settles(t) =>
         /\ (current_bucket' = current_bucket)
               = (clock <= bucketObj[current_bucket].end_time)
         /\ current_bucket' = current_bucket =>
               bucketObj'[current_bucket] = bucketObj[current_bucket]]_vars

\* an event has just been added to a bucket at now = end_time of the bucket,
\* which held an earlier event already
C24_Witness ==
  \E t \in Threads :
    /\ pc[t] = At("record", "load")
    /\ current_bucket \in DOMAIN bucketObj
    /\ clock = bucketObj[current_bucket].end_time
    /\ ev[t].ts = clock
    /\ bucketObj[current_bucket].total_count >= 2

\* the operation whose step thread t takes, "none" when it takes none
StepOf(t) ==
  IF pc'[t] = pc[t] THEN "none"
  ELSE IF pc[t] = Idle THEN pc'[t].op ELSE pc[t].op

\* C25: the collection of buckets is changed only by the step of a record()
\* call that opens a new bucket (and by clear()): every step of a read
\* operation, and every step of a record() call that adds to the existing
\* current bucket, leaves the collection as it was.
C25_CollectionChangedOnlyWhenOpening ==
  [][\A t \in Threads :
       (StepOf(t) \in ReadOps \/ (StepOf(t) = "record" /\ ~Opens(t)))
         => buckets' = buckets]_vars

\* a read operation has run its body while the collection held a bucket whose
\* end_time had passed, and the bucket is still there
C25_Witness ==
  \E t \in Threads :
    /\ pc[t].op \in ReadOps
    /\ pc[t].at = "release"
    /\ Len(buckets) = 1
    /\ clock > bucketObj[buckets[1].ref].end_time
    /\ bucketObj[buckets[1].ref].total_count >= 2

\* C26: right after the step of record() that opens a new bucket at time now,
\* the collection holds no bucket whose end_time is before now.
C26_NoExpiredBucketAfterOpening ==
  [][\A t \in Threads :
       Opens(t) =>
         \A i \in 1..Len(buckets') :
           ~(bucketObj'[buckets'[i].ref].end_time < clock)]_vars

\* a record() call has just opened a bucket, still empty, after earlier
\* events were recorded, and the bucket that held them has been dropped
C26_Witness ==
  \E t \in Threads :
    /\ pc[t] = At("record", "add")
    /\ lastOpened = clock
    /\ dropped
    /\ total_events >= 1
    /\ Len(buckets) = 1
    /\ buckets[1].ref = current_bucket
    /\ bucketObj[current_bucket].total_count = 0
    /\ bucketObj[current_bucket].end_time > clock

\* C27 (as claimed): the max_events policy evicts buckets that have not
\* expired: when record() opens a bucket while the buckets of the collection
\* hold more than max_events events, the policy of that call removes a bucket.
C27_PolicyEvictsUnderPressure ==
  [][\A t \in Threads :
       (Opens(t) /\ EstimatedTotal(buckets, bucketObj) > config.max_events)
         => policyRemoved']_vars

\* a record() call has opened a bucket while the collection held more than
\* max_events events, and the max_events policy has removed nothing
C27_Witness ==
  /\ pc[PressureThread] = At("record", "add")
  /\ lastOpened = clock
  /\ dropped
  /\ total_events > config.max_events
  /\ Len(buckets) = 1
  /\ bucketObj[buckets[1].ref].total_count = 0
  /\ ~policyRemoved

\* the counts of a bucket
Counts(bucket) ==
  [error_counts |-> bucket.error_counts, total_count |-> bucket.total_count]

\* C28: every TimeBucket has total_count = sum(error_counts.values()) in
\* every state; the counts of a bucket change only in the add_event step of a
\* record() call, on the current bucket, which raises the count of the
\* event's error_code by 1, leaves the count of every other code, and raises
\* total_count by 1.
C28_TotalCountIsSumOfCounts ==
  /\ [](\A r \in DOMAIN bucketObj :
          bucketObj[r].total_count = DictSum(bucketObj[r].error_counts))
  /\ [][\A r \in (DOMAIN bucketObj) \cap (DOMAIN bucketObj') :
          Counts(bucketObj'[r]) # Counts(bucketObj[r]) =>
            \E t \in Threads :
              /\ Steps(t, "record", "add", "load")
              /\ r = current_bucket
              /\ bucketObj'[r].total_count = bucketObj[r].total_count + 1
              /\ \A c \in Codes \cup DOMAIN bucketObj'[r].error_counts :
                    DictGet(bucketObj'[r].error_counts, c) =
                      DictGet(bucketObj[r].error_counts, c)
                        + (IF c = ev[t].code THEN 1 ELSE 0)]_vars

\* a bucket has counted events of two error codes, three events in all
C28_Witness ==
  \E r \in DOMAIN bucketObj :
    /\ DOMAIN bucketObj[r].error_counts = Codes
    /\ bucketObj[r].total_count >= 3

\* C29: the collection never holds more than one bucket, and no snapshot
\* returned reports a bucket_count above 1.
C29_AtMostOneBucket ==
  /\ Len(buckets) <= 1
  /\ \A t \in Threads :
       ret[t].kind = "snapshot" => ret[t].bucket_count <= 1

\* a second bucket has been opened after the first was filled, the first has
\* left the collection, and a snapshot taken since reports one bucket
C29_Witness ==
  /\ Len(buckets) = 1
  /\ dropped
  /\ ~cleared
  /\ total_events >= 2
  /\ bucketObj[buckets[1].ref].total_count >= 1
  /\ bucketObj[buckets[1].ref].total_count < total_events
  /\ \E t \in Threads : ret[t].kind = "snapshot" /\ ret[t].bucket_count = 1

\* C30 (as claimed): the events of the recent-events buffer are in
\* non-decreasing timestamp order: an event inserted later has a timestamp
\* at or after that of every event inserted before it.
C30_BufferInTimestampOrder ==
  \A i, j \in 1..Len(Buffer) :
    i < j => Buffer[i].ts <= Buffer[j].ts

====
